---- MODULE Spec2Model ----
(***************************************************************************)
(* Model of src/src/lib.rs: the JNI video-encoding bridge.                  *)
(*                                                                         *)
(* The program state is the static RENDERER_STATE : Option<Renderer>.      *)
(* The three JNI entry points startEncode, sendFrame and finishEncode are  *)
(* the operations; the host calls them one at a time.  The codec and the   *)
(* container library are a black box: what they answer (errors, the number *)
(* of packets that are ready, the negotiated time base) is an input of the *)
(* call, drawn with \E.                                                    *)
(*                                                                         *)
(* An Option is modelled as a sequence of length 0 or 1.                   *)
(***************************************************************************)
EXTENDS Integers, Sequences, FiniteSets

VARIABLES
  RENDERER_STATE, \* static mut RENDERER_STATE: Option<Renderer>
  last,           \* what the most recent call did and returned (observation)
  true_submits,   \* sendFrame calls that returned true since the session opened
  aborted,        \* the process was aborted by a panic in an extern "C" fn
  finished        \* finishEncode calls since the last startEncode that
                  \* returned true: "no" (none), "empty" (only on an Empty
                  \* registry), "session" (one ran finish_render on a session)

vars == <<RENDERER_STATE, last, true_submits, aborted, finished>>

----------------------------------------------------------------------------
(* Bounds of the model *)

\* sendFrame is disabled once the encoder has accepted this many frames
MaxAccepted == 2

(* Inputs *)

\* fps values the host passes; 0 makes the encoder time base 1/0
FrameRates == {0, 60, 2500}

\* stream time bases <<num, den>> the muxer may negotiate in write_header
TimeBases == {<<1, 1000>>}

\* what the host passes besides fps: the plane pointers of its two buffers
\* and the profile
HostCalls ==
  { [yuv_a |-> <<100, 101, 102>>, yuv_b |-> <<200, 201, 202>>, is_proxy |-> FALSE],
    [yuv_a |-> <<300, 300, 300>>, yuv_b |-> <<0, 0, 0>>,       is_proxy |-> TRUE] }

\* base addresses the frame allocator may hand out
AllocBases == {10, 20, 30, 40}

\* output paths
Paths == {"out.mp4"}

\* frame sizes <<width, height>>
Sizes == {<<640, 480>>}

----------------------------------------------------------------------------
(* Option *)

None == <<>>
Some(x) == <<x>>
is_some(o) == o # <<>>
unwrap(o) == o[1]

(* Rational(num, den) of ffmpeg_next, as <<num, den>> *)
Rational(n, d) == <<n, d>>
invert(q) == <<q[2], q[1]>>

----------------------------------------------------------------------------
(* JavaFrame *)

\* frame::Video::new: a frame that owns the planes allocated at `base`
Video_new(width, height, base) ==
  [ width  |-> width,
    height |-> height,
    buf    |-> base,                       \* the allocation the frame owns
    data   |-> <<base, base + 1, base + 2>>,
    pts    |-> None ]

\* Mutant of JavaFrame::new: the plane pointers are recorded after they were
\* overwritten
JavaFrame_new_records_late(width, height, base, jvm) ==
  LET av_frame == [Video_new(width, height, base) EXCEPT !.data = jvm]
  IN  [ av_frame     |-> av_frame,
        original_yuv |-> av_frame.data,
        drops        |-> 0 ]

\* JavaFrame::new: record the frame's own plane pointers, then point the
\* planes at the caller's buffers
JavaFrame_new(width, height, base, jvm) ==
  LET av_frame     == Video_new(width, height, base)
      original_yuv == av_frame.data
  IN  [ av_frame     |-> [av_frame EXCEPT !.data = jvm],
        original_yuv |-> original_yuv,
        drops        |-> 0 ]               \* times Drop::drop has run

\* Mutant of Drop for JavaFrame: no Drop implementation, the frame is freed
\* as it is
JavaFrame_drop_missing(f) == f

\* impl Drop for JavaFrame: put the recorded plane pointers back
JavaFrame_drop(f) ==
  [f EXCEPT !.av_frame.data = f.original_yuv,
            !.drops = f.drops + 1]

\* Dropping a JavaFrame value: Drop::drop runs, then the field av_frame is
\* dropped, which frees the frame.  The result is what the frame's own
\* destructor saw.
drop_in_place_JavaFrame(f) ==
  LET g == JavaFrame_drop(f)
  IN  [ buf   |-> g.av_frame.buf,
        data  |-> g.av_frame.data,
        jvm   |-> f.av_frame.data,
        drops |-> g.drops ]

----------------------------------------------------------------------------
(* The encoder and the output container, as far as the program drives them *)

\* ost.codec().encoder().video() followed by the setters of Renderer::new
Video_encoder(width, height, frame_rate) ==
  [ width      |-> width,
    height     |-> height,
    frame_rate |-> frame_rate,
    time_base  |-> invert(frame_rate),
    opened     |-> FALSE,      \* open_with has succeeded
    accepted   |-> <<>>,       \* PTS of the frames send_frame accepted
    made       |-> 0,          \* packets the encoder has produced so far
    ready      |-> <<>>,       \* produced packets not yet received
    eof        |-> FALSE ]     \* send_eof has succeeded

\* output(&output_file): an open container with nothing written.  log is
\* the order of the writes the container has taken so far.
Output_new(output_file) ==
  [ file    |-> output_file,
    header  |-> FALSE,
    packets |-> <<>>,
    trailer |-> FALSE,
    log     |-> <<>> ]

\* octx.write_header(), when it succeeds
write_header(octx) ==
  [octx EXCEPT !.header = TRUE, !.log = Append(octx.log, "header")]

\* self.octx.write_trailer(), when it succeeds
write_trailer(octx) ==
  [octx EXCEPT !.trailer = TRUE, !.log = Append(octx.log, "trailer")]

\* OPTS and the literal in Renderer::new: the "crf" entry of the dictionary
\* given to open_with (the other two entries are the same in both)
crf_option(is_proxy) == IF is_proxy THEN 28 ELSE 16

\* avcodec_open2 refuses an encoder whose time base is not positive
open_with_ok(encoder, lib) ==
  /\ lib.fail_at # 4
  /\ encoder.time_base[1] > 0
  /\ encoder.time_base[2] > 0

\* octx.stream(0).map_or(Rational(90000, 1), |s| s.time_base())
stream_time_base_of(stream0) ==
  IF is_some(stream0) THEN unwrap(stream0) ELSE Rational(90000, 1)

\* Packet::empty() filled in by receive_packet with the seq-th packet: the
\* stream index is the 0 of a fresh packet; tagged tells whether set_stream
\* has been called on it
Packet(seq) == [seq |-> seq, stream |-> 0, tagged |-> FALSE]

\* encoded.set_stream(index)
set_stream(packet, index) ==
  [packet EXCEPT !.stream = index, !.tagged = TRUE]

\* encoded.write_interleaved(&mut self.octx), when it succeeds
write_interleaved(octx, packet) ==
  [octx EXCEPT !.packets = Append(octx.packets, packet),
               !.log = Append(octx.log, "packet")]

\* Mutant of rescale: plain integer division, without the rounding term
rescale_truncating(a, bq, cq) ==
  (a * bq[1] * cq[2]) \div (cq[1] * bq[2])

\* i64::rescale(source, destination) = av_rescale_q(a, source, destination):
\* av_rescale_rnd(a, b, c, AV_ROUND_NEAR_INF) with b = bq.num * cq.den and
\* c = cq.num * bq.den, which for 0 <= a, 0 <= b, 0 < c is (a*b + c/2) / c
rescale(a, bq, cq) ==
  LET b == bq[1] * cq[2]
      c == cq[1] * bq[2]
      r == c \div 2
  IN  (a * b + r) \div c

\* Dropping the encoder: it is released as it is, nothing is sent to it.
\* The result is what was released.
drop_in_place_Video(encoder) ==
  [ opened   |-> encoder.opened,
    accepted |-> Len(encoder.accepted),
    made     |-> encoder.made,
    eof      |-> encoder.eof ]

\* Dropping the output context: the file is closed as it is, nothing is
\* written to it.  The result is what was closed.
drop_in_place_Output(octx) ==
  [ file    |-> octx.file,
    header  |-> octx.header,
    packets |-> Len(octx.packets),
    trailer |-> octx.trailer,
    log     |-> octx.log ]

----------------------------------------------------------------------------
(* Renderer *)

\* Renderer::new.  lib.fail_at is the step the library fails at (0: none):
\*   1 output()            2 add_stream          3 encoder().video()
\*   4 open_with           5, 6 encoder().video() again
\*   7 write_header
\* lib.stream0 is what octx.stream(0) answers after the header is written.
\* The result is the Result<Renderer> (ok: Some(renderer) or None), the crf
\* option chosen for open_with, and what the early return dropped.
Renderer_new(output_file, width, height, frame_rate, frame_a, frame_b, is_proxy, lib) ==
  LET octx     == Output_new(output_file)
      encoder  == Video_encoder(width, height, frame_rate)
      opened   == [encoder EXCEPT !.opened = TRUE]
      step     == IF lib.fail_at \in 1..3 THEN lib.fail_at
                  ELSE IF ~open_with_ok(encoder, lib) THEN 4
                  ELSE lib.fail_at
      \* the parameters are dropped last, the second before the first
      frames   == { drop_in_place_JavaFrame(frame_b),
                    drop_in_place_JavaFrame(frame_a) }
  IN  IF step = 0
      THEN [ ok       |-> Some([ frame_a          |-> frame_a,
                                 frame_b          |-> frame_b,
                                 frame_index      |-> 0,
                                 frame_rate       |-> frame_rate,
                                 encoder          |-> opened,
                                 octx             |-> write_header(octx),
                                 stream_time_base |-> stream_time_base_of(lib.stream0) ]),
             step     |-> 0,
             crf      |-> crf_option(is_proxy),
             freed    |-> {},
             encoders |-> {},
             outputs  |-> {} ]
      ELSE [ ok       |-> None,
             step     |-> step,
             crf      |-> crf_option(is_proxy),
             freed    |-> frames,
             encoders |-> IF step <= 3 THEN {}
                          ELSE IF step = 4 THEN {drop_in_place_Video(encoder)}
                          ELSE {drop_in_place_Video(opened)},
             outputs  |-> IF step = 1 THEN {} ELSE {drop_in_place_Output(octx)} ]

\* Dropping a Renderer: its fields are dropped in declaration order
drop_in_place_Renderer(r) ==
  [ freed    |-> { drop_in_place_JavaFrame(r.frame_a),
                   drop_in_place_JavaFrame(r.frame_b) },
    encoders |-> {drop_in_place_Video(r.encoder)},
    outputs  |-> {drop_in_place_Output(r.octx)} ]

\* Dropping an Option<Renderer>
drop_in_place_Option(o) ==
  IF is_some(o) THEN drop_in_place_Renderer(unwrap(o))
  ELSE [freed |-> {}, encoders |-> {}, outputs |-> {}]

\* self.encoder.send_frame(&frame.av_frame), when the encoder accepts the
\* frame: the encoder takes the frame and makes `burst` more packets ready
encoder_send_frame(encoder, av_frame, burst) ==
  LET accepted == Append(encoder.accepted,
                         [pts |-> av_frame.pts, data |-> av_frame.data])
  IN  [encoder EXCEPT
         !.accepted = accepted,
         !.made     = encoder.made + burst,
         !.ready    = encoder.ready
                        \o [j \in 1..burst |-> encoder.made + j]]

\* self.encoder.send_eof(), when it succeeds: the encoder flushes, every
\* frame it still holds becomes a ready packet
encoder_send_eof(encoder) ==
  LET rest == Len(encoder.accepted) - encoder.made
  IN  [encoder EXCEPT
         !.eof   = TRUE,
         !.made  = Len(encoder.accepted),
         !.ready = encoder.ready \o [j \in 1..rest |-> encoder.made + j]]

\* self.encoder.receive_packet(&mut encoded): Ok with the next ready packet,
\* or an error: `fails` is an encoder failure, an empty queue is "no packet
\* ready" (or end of stream after send_eof)
receive_packet(encoder, fails) ==
  IF fails \/ encoder.ready = <<>>
  THEN [ok |-> None, encoder |-> encoder]
  ELSE [ok      |-> Some(Packet(Head(encoder.ready))),
        encoder |-> [encoder EXCEPT !.ready = Tail(encoder.ready)]]

\* The while loop of send_frame, from its k-th receive_packet call on.
\* lib.recv_err_at = k: that call fails in the encoder;
\* lib.write_err_at = k: the write of the packet it returned fails.
RECURSIVE send_frame_drain(_, _, _)
send_frame_drain(self, lib, k) ==
  LET got == receive_packet(self.encoder, lib.recv_err_at = k)
  IN  IF ~is_some(got.ok)
      THEN [ self   |-> self,
             return |-> None,          \* the loop ends, no return yet
             events |-> IF lib.recv_err_at = k THEN {"recv_err"} ELSE {} ]
      ELSE LET encoded == set_stream(unwrap(got.ok), 0)
               self1   == [self EXCEPT !.encoder = got.encoder]
           IN  IF lib.write_err_at = k
               THEN [ self   |-> self1,
                      return |-> Some(FALSE),
                      events |-> {"write_err"} ]
               ELSE send_frame_drain(
                      [self1 EXCEPT !.octx = write_interleaved(self1.octx, encoded)],
                      lib, k + 1)

\* Mutant of send_frame: the frame index is advanced as soon as the encoder
\* has accepted the frame, before the drain that may still fail
send_frame_counts_before_drain(self, use_buffer_b, lib) ==
  LET pts     == rescale(self.frame_index, invert(self.frame_rate),
                         self.stream_time_base)
      stamped == IF use_buffer_b
                 THEN [self EXCEPT !.frame_b.av_frame.pts = Some(pts)]
                 ELSE [self EXCEPT !.frame_a.av_frame.pts = Some(pts)]
      frame   == IF use_buffer_b THEN stamped.frame_b ELSE stamped.frame_a
  IN  IF lib.send_err
      THEN [self |-> stamped, return |-> FALSE, events |-> {"send_err"}]
      ELSE LET sent  == [stamped EXCEPT
                           !.encoder = encoder_send_frame(stamped.encoder,
                                         frame.av_frame, lib.burst),
                           !.frame_index = stamped.frame_index + 1]
               drain == send_frame_drain(sent, lib, 1)
           IN  [ self   |-> drain.self,
                 return |-> IF is_some(drain.return)
                            THEN unwrap(drain.return) ELSE TRUE,
                 events |-> drain.events ]

\* Mutant of send_frame: the frame index counts the packets written instead
\* of the frames submitted
send_frame_counts_packets(self, use_buffer_b, lib) ==
  LET pts     == rescale(self.frame_index, invert(self.frame_rate),
                         self.stream_time_base)
      stamped == IF use_buffer_b
                 THEN [self EXCEPT !.frame_b.av_frame.pts = Some(pts)]
                 ELSE [self EXCEPT !.frame_a.av_frame.pts = Some(pts)]
      frame   == IF use_buffer_b THEN stamped.frame_b ELSE stamped.frame_a
  IN  IF lib.send_err
      THEN [self |-> stamped, return |-> FALSE, events |-> {"send_err"}]
      ELSE LET sent  == [stamped EXCEPT !.encoder =
                           encoder_send_frame(stamped.encoder, frame.av_frame,
                                              lib.burst)]
               drain == send_frame_drain(sent, lib, 1)
           IN  IF is_some(drain.return)
               THEN [ self   |-> drain.self,
                      return |-> unwrap(drain.return),
                      events |-> drain.events ]
               ELSE [ self   |-> [drain.self EXCEPT !.frame_index =
                                    drain.self.frame_index
                                      + Len(drain.self.octx.packets)
                                      - Len(self.octx.packets)],
                      return |-> TRUE,
                      events |-> drain.events ]

\* Mutant of send_frame: the slots alternate with the frame index (A for
\* even, B for odd), whatever the caller asked for
send_frame_alternates(self, use_buffer_b, lib) ==
  LET pts     == rescale(self.frame_index, invert(self.frame_rate),
                         self.stream_time_base)
      odd     == self.frame_index % 2 = 1
      stamped == IF odd
                 THEN [self EXCEPT !.frame_b.av_frame.pts = Some(pts)]
                 ELSE [self EXCEPT !.frame_a.av_frame.pts = Some(pts)]
      frame   == IF odd THEN stamped.frame_b ELSE stamped.frame_a
  IN  IF lib.send_err
      THEN [self |-> stamped, return |-> FALSE, events |-> {"send_err"}]
      ELSE LET sent  == [stamped EXCEPT !.encoder =
                           encoder_send_frame(stamped.encoder, frame.av_frame,
                                              lib.burst)]
               drain == send_frame_drain(sent, lib, 1)
           IN  IF is_some(drain.return)
               THEN [ self   |-> drain.self,
                      return |-> unwrap(drain.return),
                      events |-> drain.events ]
               ELSE [ self   |-> [drain.self EXCEPT !.frame_index =
                                    drain.self.frame_index + 1],
                      return |-> TRUE,
                      events |-> drain.events ]

\* Renderer::send_frame.  lib.send_err: the encoder rejects the frame;
\* lib.burst: packets the encoder makes ready on accepting it
send_frame(self, use_buffer_b, lib) ==
  LET pts     == rescale(self.frame_index, invert(self.frame_rate),
                         self.stream_time_base)
      stamped == IF use_buffer_b
                 THEN [self EXCEPT !.frame_b.av_frame.pts = Some(pts)]
                 ELSE [self EXCEPT !.frame_a.av_frame.pts = Some(pts)]
      frame   == IF use_buffer_b THEN stamped.frame_b ELSE stamped.frame_a
  IN  IF lib.send_err
      THEN [self |-> stamped, return |-> FALSE, events |-> {"send_err"}]
      ELSE LET sent  == [stamped EXCEPT !.encoder =
                           encoder_send_frame(stamped.encoder, frame.av_frame,
                                              lib.burst)]
               drain == send_frame_drain(sent, lib, 1)
           IN  IF is_some(drain.return)
               THEN [ self   |-> drain.self,
                      return |-> unwrap(drain.return),
                      events |-> drain.events ]
               \* self.frame_index += 1 (u64; MaxAccepted keeps it far
               \* below the value at which it would overflow)
               ELSE [ self   |-> [drain.self EXCEPT !.frame_index =
                                    drain.self.frame_index + 1],
                      return |-> TRUE,
                      events |-> drain.events ]

\* Mutant of finish_render_drain: the result of write_interleaved is
\* discarded, the loop goes on with the next packet
RECURSIVE finish_render_drain_ignores_write(_, _, _)
finish_render_drain_ignores_write(self, lib, k) ==
  LET got == receive_packet(self.encoder, lib.recv_err_at = k)
  IN  IF ~is_some(got.ok)
      THEN [ self   |-> self,
             ok     |-> TRUE,
             events |-> IF lib.recv_err_at = k THEN {"recv_err"} ELSE {} ]
      ELSE LET encoded == unwrap(got.ok)
               self1   == [self EXCEPT !.encoder = got.encoder]
           IN  IF lib.write_err_at = k
               THEN LET rest == finish_render_drain_ignores_write(self1, lib, k + 1)
                    IN  [rest EXCEPT !.events = rest.events \cup {"write_err"}]
               ELSE finish_render_drain_ignores_write(
                      [self1 EXCEPT !.octx = write_interleaved(self1.octx, encoded)],
                      lib, k + 1)

\* The while loop of finish_render, from its k-th receive_packet call on
RECURSIVE finish_render_drain(_, _, _)
finish_render_drain(self, lib, k) ==
  LET got == receive_packet(self.encoder, lib.recv_err_at = k)
  IN  IF ~is_some(got.ok)
      THEN [ self   |-> self,
             ok     |-> TRUE,
             events |-> IF lib.recv_err_at = k THEN {"recv_err"} ELSE {} ]
      ELSE LET encoded == unwrap(got.ok)
               self1   == [self EXCEPT !.encoder = got.encoder]
           IN  IF lib.write_err_at = k
               THEN [self |-> self1, ok |-> FALSE, events |-> {"write_err"}]
               ELSE finish_render_drain(
                      [self1 EXCEPT !.octx = write_interleaved(self1.octx, encoded)],
                      lib, k + 1)

\* Mutant of finish_render: the trailer is written right after the end of
\* stream, before the remaining packets are drained
finish_render_trailer_first(self, lib) ==
  IF lib.eof_err
  THEN [self |-> self, ok |-> FALSE, events |-> {"eof_err"}]
  ELSE LET sent  == [self EXCEPT !.encoder = encoder_send_eof(self.encoder),
                                 !.octx = write_trailer(self.octx)]
       IN  finish_render_drain(sent, lib, 1)

\* Renderer::finish_render.  ok: the Result is Ok(())
finish_render(self, lib) ==
  IF lib.eof_err
  THEN [self |-> self, ok |-> FALSE, events |-> {"eof_err"}]
  ELSE LET sent  == [self EXCEPT !.encoder = encoder_send_eof(self.encoder)]
           drain == finish_render_drain(sent, lib, 1)
       IN  IF ~drain.ok
           THEN drain
           ELSE IF lib.trailer_err
           THEN [ self   |-> drain.self,
                  ok     |-> FALSE,
                  events |-> drain.events \cup {"trailer_err"} ]
           ELSE [ self   |-> [drain.self EXCEPT !.octx =
                                    write_trailer(drain.self.octx)],
                  ok     |-> TRUE,
                  events |-> drain.events ]

----------------------------------------------------------------------------
(* The JNI entry points, as functions of the registry and the call's inputs *)

\* the allocations of the frames a registry value holds
live_bufs(state) ==
  IF is_some(state)
  THEN {unwrap(state).frame_a.av_frame.buf, unwrap(state).frame_b.av_frame.buf}
  ELSE {}

\* the allocator: the lowest base address not in use
alloc(in_use) ==
  CHOOSE b \in AllocBases \ in_use : \A c \in AllocBases \ in_use : b <= c

\* what a call reports when it drops nothing
NoDrops == [freed |-> {}, encoders |-> {}, outputs |-> {}]

\* Mutant of startEncode: the registry is assigned only when Renderer::new
\* succeeded, so a failed start keeps the session that was open
startEncode_keeps_old(state, a) ==
  LET frame_a == JavaFrame_new(a.width, a.height, a.base_a, a.yuv_a)
      frame_b == JavaFrame_new(a.width, a.height, a.base_b, a.yuv_b)
      new     == Renderer_new(a.file, a.width, a.height, Rational(a.fps, 1),
                              frame_a, frame_b, a.is_proxy, a.lib)
      old     == IF is_some(new.ok) THEN drop_in_place_Option(state) ELSE NoDrops
  IN  [ state    |-> IF is_some(new.ok) THEN new.ok ELSE state,
        return   |-> Some(is_some(new.ok)),
        created  |-> {frame_a, frame_b},
        freed    |-> new.freed \cup old.freed,
        encoders |-> new.encoders \cup old.encoders,
        outputs  |-> new.outputs \cup old.outputs,
        events   |-> IF new.step = 0 THEN {} ELSE {"open_err"},
        step     |-> new.step,
        crf      |-> new.crf ]

\* Mutant of startEncode: the new value is written over the registry without
\* dropping the session it held
startEncode_leaks_old(state, a) ==
  LET frame_a == JavaFrame_new(a.width, a.height, a.base_a, a.yuv_a)
      frame_b == JavaFrame_new(a.width, a.height, a.base_b, a.yuv_b)
      new     == Renderer_new(a.file, a.width, a.height, Rational(a.fps, 1),
                              frame_a, frame_b, a.is_proxy, a.lib)
  IN  [ state    |-> new.ok,
        return   |-> Some(is_some(new.ok)),
        created  |-> {frame_a, frame_b},
        freed    |-> new.freed,
        encoders |-> new.encoders,
        outputs  |-> new.outputs,
        events   |-> IF new.step = 0 THEN {} ELSE {"open_err"},
        step     |-> new.step,
        crf      |-> new.crf ]

\* Java_me_aris_recordingmod_RendererKt_startEncode, once env.get_string has
\* given the path: build both frames, evaluate Renderer::new(..).ok(), assign
\* it to RENDERER_STATE (which drops the value held before), return is_some()
startEncode(state, a) ==
  LET frame_a == JavaFrame_new(a.width, a.height, a.base_a, a.yuv_a)
      frame_b == JavaFrame_new(a.width, a.height, a.base_b, a.yuv_b)
      new     == Renderer_new(a.file, a.width, a.height, Rational(a.fps, 1),
                              frame_a, frame_b, a.is_proxy, a.lib)
      old     == drop_in_place_Option(state)
  IN  [ state    |-> new.ok,
        return   |-> Some(is_some(new.ok)),
        created  |-> {frame_a, frame_b},
        freed    |-> new.freed \cup old.freed,
        encoders |-> new.encoders \cup old.encoders,
        outputs  |-> new.outputs \cup old.outputs,
        events   |-> IF new.step = 0 THEN {} ELSE {"open_err"},
        step     |-> new.step,
        crf      |-> new.crf ]

\* Mutant of sendFrame: without a session the call reports failure
sendFrame_fails_when_empty(state, use_bufer_b, lib) ==
  IF is_some(state)
  THEN LET r == send_frame(unwrap(state), use_bufer_b, lib)
       IN  [ state    |-> Some(r.self),
             return   |-> Some(r.return),
             events   |-> r.events ]
  ELSE [ state    |-> state,
         return   |-> Some(FALSE),
         events   |-> {} ]

\* Java_me_aris_recordingmod_RendererKt_sendFrame
sendFrame(state, use_bufer_b, lib) ==
  IF is_some(state)
  THEN LET r == send_frame(unwrap(state), use_bufer_b, lib)
       IN  [ state    |-> Some(r.self),
             return   |-> Some(r.return),
             events   |-> r.events ]
  ELSE [ state    |-> state,
         return   |-> Some(TRUE),
         events   |-> {} ]

\* Mutant of finishEncode: finish_render runs on the session, and the
\* session stays in the registry
finishEncode_keeps_session(state, lib) ==
  LET r == IF is_some(state)
           THEN finish_render(unwrap(state), lib)
           ELSE [self |-> None, ok |-> TRUE, events |-> {}]
  IN  [ state    |-> IF is_some(state) THEN Some(r.self) ELSE state,
        return   |-> None,
        freed    |-> {},
        encoders |-> {},
        outputs  |-> {},
        events   |-> r.events ]

\* Mutant of finishEncode: the registry is cleared only when finish_render
\* returned Ok
finishEncode_keeps_on_error(state, lib) ==
  LET r       == IF is_some(state)
                 THEN finish_render(unwrap(state), lib)
                 ELSE [self |-> None, ok |-> TRUE, events |-> {}]
      after   == IF is_some(state) THEN Some(r.self) ELSE state
      dropped == IF r.ok THEN drop_in_place_Option(after) ELSE NoDrops
  IN  [ state    |-> IF r.ok THEN None ELSE after,
        return   |-> None,
        freed    |-> dropped.freed,
        encoders |-> dropped.encoders,
        outputs  |-> dropped.outputs,
        events   |-> r.events ]

\* Java_me_aris_recordingmod_RendererKt_finishEncode: finish_render on the
\* session if there is one, its Result discarded, then RENDERER_STATE = None
finishEncode(state, lib) ==
  LET r       == IF is_some(state)
                 THEN finish_render(unwrap(state), lib)
                 ELSE [self |-> None, ok |-> TRUE, events |-> {}]
      after   == IF is_some(state) THEN Some(r.self) ELSE state
      dropped == drop_in_place_Option(after)
  IN  [ state    |-> None,
        return   |-> None,
        freed    |-> dropped.freed,
        encoders |-> dropped.encoders,
        outputs  |-> dropped.outputs,
        events   |-> r.events ]

----------------------------------------------------------------------------
(* The state machine *)

\* the observation a call leaves in `last`
Observation(op, state, out, drops, created, step, crf, slot) ==
  [ op       |-> op,
    slot     |-> slot,
    crf      |-> crf,
    return   |-> out.return,
    was_open |-> is_some(state),
    events   |-> out.events,
    step     |-> step,
    created  |-> created,
    freed    |-> drops.freed,
    encoders |-> drops.encoders,
    outputs  |-> drops.outputs ]

Init ==
  /\ RENDERER_STATE = None
  /\ last = Observation("none", None, [return |-> None, events |-> {}],
                        NoDrops, {}, 0, 0, None)
  /\ true_submits = 0
  /\ aborted = FALSE
  /\ finished = "no"

\* what the library may answer during Renderer::new
OpenAnswers ==
  [fail_at : 1..7, stream0 : {None}]
    \cup [fail_at : {0}, stream0 : {None} \cup {Some(tb) : tb \in TimeBases}]

\* the host calls startEncode
StartEncode ==
  /\ ~aborted
  /\ \E file \in Paths, size \in Sizes, fps \in FrameRates,
        host \in HostCalls, lib \in OpenAnswers :
         LET base_a == alloc(live_bufs(RENDERER_STATE))
             base_b == alloc(live_bufs(RENDERER_STATE) \cup {base_a})
             out == startEncode(RENDERER_STATE,
                      [ file |-> file, width |-> size[1], height |-> size[2],
                        fps |-> fps, yuv_a |-> host.yuv_a, yuv_b |-> host.yuv_b,
                        is_proxy |-> host.is_proxy, base_a |-> base_a,
                        base_b |-> base_b, lib |-> lib ])
         IN  /\ RENDERER_STATE' = out.state
             /\ last' = Observation("startEncode", RENDERER_STATE, out, out,
                                    out.created, out.step, out.crf, None)
             /\ true_submits' = 0
             /\ finished' = IF out.return = Some(TRUE) THEN "no" ELSE finished
             /\ UNCHANGED aborted

\* the host calls startEncode with a string env.get_string rejects: unwrap()
\* panics in an extern "C" function after both frames were built, and the
\* process is aborted with the registry as it was.  Whether the unwinding
\* drops the two frames before the abort depends on the build.
StartEncodePanic ==
  /\ ~aborted
  /\ \E size \in Sizes, host \in HostCalls, unwinds \in BOOLEAN :
       LET base_a  == alloc(live_bufs(RENDERER_STATE))
           base_b  == alloc(live_bufs(RENDERER_STATE) \cup {base_a})
           frame_a == JavaFrame_new(size[1], size[2], base_a, host.yuv_a)
           frame_b == JavaFrame_new(size[1], size[2], base_b, host.yuv_b)
           drops   == IF unwinds
                      THEN [NoDrops EXCEPT !.freed =
                              { drop_in_place_JavaFrame(frame_b),
                                drop_in_place_JavaFrame(frame_a) }]
                      ELSE NoDrops
       IN
         /\ last' = Observation("startEncode", RENDERER_STATE,
                      [return |-> None, events |-> {"panic"}], drops,
                      {frame_a, frame_b}, 0, 0, None)
         /\ aborted' = TRUE
         /\ UNCHANGED <<RENDERER_STATE, true_submits, finished>>

\* what the library may answer during send_frame on session r
SendAnswers(r) ==
  LET pending == Len(r.encoder.accepted) + 1 - r.encoder.made
      ready   == Len(r.encoder.ready)
      Drain(n) == UNION { [ send_err     : {FALSE},
                            burst        : {n},
                            recv_err_at  : {e},
                            write_err_at : 0..(IF e = 0 THEN ready + n ELSE e - 1) ] :
                          e \in 0..(ready + n + 1) }
  IN  {[send_err |-> TRUE, burst |-> 0, recv_err_at |-> 0, write_err_at |-> 0]}
      \cup UNION { Drain(n) : n \in 0..pending }

\* the host calls sendFrame
SendFrame ==
  /\ ~aborted
  /\ is_some(RENDERER_STATE) =>
       Len(unwrap(RENDERER_STATE).encoder.accepted) < MaxAccepted
  /\ \E use_bufer_b \in BOOLEAN :
       \E lib \in IF is_some(RENDERER_STATE)
                  THEN SendAnswers(unwrap(RENDERER_STATE))
                  ELSE {[send_err |-> FALSE, burst |-> 0,
                         recv_err_at |-> 0, write_err_at |-> 0]} :
         LET out == sendFrame(RENDERER_STATE, use_bufer_b, lib)
         IN  /\ RENDERER_STATE' = out.state
             /\ last' = Observation("sendFrame", RENDERER_STATE, out, NoDrops,
                                    {}, 0, 0, Some(use_bufer_b))
             /\ true_submits' = IF is_some(RENDERER_STATE) /\ out.return = Some(TRUE)
                                THEN true_submits + 1 ELSE true_submits
             /\ UNCHANGED <<aborted, finished>>

\* what the library may answer during finish_render on session r
FinishAnswers(r) ==
  LET n == Len(r.encoder.ready) + Len(r.encoder.accepted) - r.encoder.made
  IN  {[eof_err |-> TRUE, recv_err_at |-> 0, write_err_at |-> 0,
        trailer_err |-> FALSE]}
      \cup UNION { [ eof_err      : {FALSE},
                     recv_err_at  : {e},
                     write_err_at : {0},
                     trailer_err  : BOOLEAN ] : e \in 0..(n + 1) }
      \cup UNION { [ eof_err      : {FALSE},
                     recv_err_at  : {e},
                     write_err_at : 1..(IF e = 0 THEN n ELSE e - 1),
                     trailer_err  : {FALSE} ] : e \in 0..(n + 1) }

\* the host calls finishEncode
FinishEncode ==
  /\ ~aborted
  /\ \E lib \in IF is_some(RENDERER_STATE)
                THEN FinishAnswers(unwrap(RENDERER_STATE))
                ELSE {[eof_err |-> FALSE, recv_err_at |-> 0,
                       write_err_at |-> 0, trailer_err |-> FALSE]} :
       LET out == finishEncode(RENDERER_STATE, lib)
       IN  /\ RENDERER_STATE' = out.state
           /\ last' = Observation("finishEncode", RENDERER_STATE, out, out, {}, 0, 0,
                                  None)
           /\ true_submits' = 0
           /\ finished' = IF is_some(RENDERER_STATE) \/ finished = "session"
                          THEN "session" ELSE "empty"
           /\ UNCHANGED aborted

Next ==
  \/ StartEncode
  \/ StartEncodePanic
  \/ SendFrame
  \/ FinishEncode

Spec == Init /\ [][Next]_vars

----------------------------------------------------------------------------
(* Properties *)

\* a session whose opening ran to the end: encoder opened, header written,
\* both frames aliased and not yet released
FullyOpened(r) ==
  /\ r.encoder.opened
  /\ r.octx.header
  /\ ~r.octx.trailer
  /\ r.frame_a.drops = 0
  /\ r.frame_b.drops = 0

\* a session as Renderer::new returns it
FreshSession(r) ==
  /\ FullyOpened(r)
  /\ r.frame_index = 0
  /\ r.octx.packets = <<>>
  /\ r.encoder.accepted = <<>>

\* C1: when startEncode returns false the registry is Empty, whatever step
\* of the opening failed and whatever the registry held before; it returns
\* true exactly when the registry then holds a freshly opened session
\* (header written, frame index 0); the registry never holds a session that
\* is not fully opened.
StartLeavesNoPartialSession ==
  /\ is_some(RENDERER_STATE) => FullyOpened(unwrap(RENDERER_STATE))
  /\ (last.op = "startEncode" /\ is_some(last.return)) =>
       /\ last.return = Some(FALSE) => RENDERER_STATE = None
       /\ last.return = Some(TRUE) <=>
            (is_some(RENDERER_STATE) /\ FreshSession(unwrap(RENDERER_STATE)))
       /\ last.return = Some(FALSE) <=> last.step \in 1..7

\* C1 witness: startEncode failed at the header write while a session was open
StartFailedAtHeaderWhileOpen ==
  /\ last.op = "startEncode"
  /\ last.return = Some(FALSE)
  /\ last.was_open
  /\ last.step = 7
  /\ RENDERER_STATE = None

\* C2: sendFrame on an Empty registry returns true and changes nothing: the
\* registry stays Empty, no encoder or container is touched or released.
SendOnEmptyIsNoOp ==
  (last.op = "sendFrame" /\ ~last.was_open) =>
     /\ last.return = Some(TRUE)
     /\ RENDERER_STATE = None
     /\ last.events = {}
     /\ last.freed = {} /\ last.encoders = {} /\ last.outputs = {}
     /\ true_submits = 0

\* C2 witness: a sendFrame call was made on the Empty registry
SentOnEmpty ==
  /\ last.op = "sendFrame"
  /\ ~last.was_open
  /\ last.return = Some(TRUE)

\* C3: after every finishEncode call the registry is Empty, whatever it held
\* before and whichever step of finish_render failed; an open session is
\* released, not kept.
FinishAlwaysClears ==
  last.op = "finishEncode" =>
     /\ RENDERER_STATE = None
     /\ last.was_open => (Cardinality(last.outputs) = 1
                          /\ Cardinality(last.encoders) = 1
                          /\ Cardinality(last.freed) = 2)
     /\ ~last.was_open => (last.outputs = {} /\ last.events = {})

\* C3 witness: finishEncode on an open session whose trailer write failed
FinishedWithTrailerError ==
  /\ last.op = "finishEncode"
  /\ last.was_open
  /\ "trailer_err" \in last.events
  /\ RENDERER_STATE = None

\* C4: with a session open, sendFrame returns false whenever the encoder
\* failed (rejecting the frame, or in receive_packet during the drain) or a
\* container write failed, and true only when none of these happened.
SubmitReportsEveryFailure ==
  (last.op = "sendFrame" /\ last.was_open) =>
     (last.return = Some(FALSE)
        <=> last.events \cap {"send_err", "recv_err", "write_err"} # {})

\* C5: a sendFrame call that returns false leaves the frame index as it was
\* and leaves the same session open in the registry.
FailedSubmitKeepsIndexAndSession ==
  [][ (last'.op = "sendFrame" /\ last'.return = Some(FALSE)) =>
        /\ is_some(RENDERER_STATE)
        /\ is_some(RENDERER_STATE')
        /\ unwrap(RENDERER_STATE').frame_index = unwrap(RENDERER_STATE).frame_index
        /\ live_bufs(RENDERER_STATE') = live_bufs(RENDERER_STATE)
        /\ unwrap(RENDERER_STATE').octx.file = unwrap(RENDERER_STATE).octx.file
        /\ FullyOpened(unwrap(RENDERER_STATE'))
    ]_vars

\* C5 witness: a submit failed on a packet write in a session whose frame
\* index had already advanced
SubmitFailedOnWrite ==
  /\ last.op = "sendFrame"
  /\ last.return = Some(FALSE)
  /\ "write_err" \in last.events
  /\ is_some(RENDERER_STATE)
  /\ unwrap(RENDERER_STATE).frame_index = 1

\* C6: within a session the frame index starts at 0, never decreases, grows
\* by exactly 1 on each sendFrame that returns true and by 0 on each that
\* returns false, and so equals the number of sendFrame calls of the session
\* that returned true.
FrameIndexCountsTrueSubmits ==
  /\ [](is_some(RENDERER_STATE) =>
          unwrap(RENDERER_STATE).frame_index = true_submits)
  /\ [][ /\ (last'.op = "startEncode" /\ last'.return = Some(TRUE)) =>
              unwrap(RENDERER_STATE').frame_index = 0
         /\ (last'.op = "sendFrame" /\ is_some(RENDERER_STATE)) =>
              /\ is_some(RENDERER_STATE')
              /\ unwrap(RENDERER_STATE').frame_index
                   = unwrap(RENDERER_STATE).frame_index
                       + (IF last'.return = Some(TRUE) THEN 1 ELSE 0)
       ]_vars

\* C6 witness: a submit returned true after an earlier submit of the session
\* had failed with its frame accepted
SubmitSucceededAfterFailure ==
  /\ last.op = "sendFrame"
  /\ last.return = Some(TRUE)
  /\ is_some(RENDERER_STATE)
  /\ unwrap(RENDERER_STATE).frame_index = 1
  /\ Len(unwrap(RENDERER_STATE).encoder.accepted) = 2

\* C7: a successful startEncode on an open session leaves exactly the new
\* session in the registry (frame index 0, the frames built by this call);
\* the old session's two frames, encoder and container are released as they
\* were: no end of stream was sent to the old encoder, no packet and no
\* trailer written to the old container.
RestartReplacesWithoutFinishing ==
  [][ (last'.op = "startEncode" /\ last'.return = Some(TRUE)
         /\ is_some(RENDERER_STATE)) =>
        LET old == unwrap(RENDERER_STATE)
            new == unwrap(RENDERER_STATE')
        IN  /\ FreshSession(new)
            /\ {new.frame_a, new.frame_b} = last'.created
            /\ live_bufs(RENDERER_STATE') \cap live_bufs(RENDERER_STATE) = {}
            /\ {x.buf : x \in last'.freed} = live_bufs(RENDERER_STATE)
            /\ last'.encoders = {[ opened   |-> TRUE,
                                   accepted |-> Len(old.encoder.accepted),
                                   made     |-> old.encoder.made,
                                   eof      |-> FALSE ]}
            /\ last'.outputs = {[ file    |-> old.octx.file,
                                  header  |-> TRUE,
                                  packets |-> Len(old.octx.packets),
                                  trailer |-> FALSE,
                                  log     |-> old.octx.log ]}
    ]_vars

\* C7 witness: startEncode succeeded over a session that had written packets
RestartedOverWrittenSession ==
  /\ last.op = "startEncode"
  /\ last.return = Some(TRUE)
  /\ last.was_open
  /\ \E o \in last.outputs : o.packets >= 1 /\ ~o.trailer
  /\ is_some(RENDERER_STATE)

\* the integer nearest to n / d (n >= 0, d > 0), a half rounded up
NearestInt(n, d) ==
  CHOOSE p \in 0..(n \div d + 1) : 2 * p * d - d <= 2 * n /\ 2 * n < 2 * p * d + d

\* the PTS send_frame computes at frame index i in session r
PtsAt(r, i) == rescale(i, invert(r.frame_rate), r.stream_time_base)

\* the frame a sendFrame call with this slot argument stamps
SlotFrame(r, slot) == IF unwrap(slot) THEN r.frame_b ELSE r.frame_a

\* the PTS is the exact rescale of the frame index: at every index, and on
\* the frame the last sendFrame call stamped
PtsIsExactRescale(r) ==
  LET fps == r.frame_rate[1]
      tb  == r.stream_time_base
  IN  /\ \A i \in 0..(MaxAccepted + 1) :
           PtsAt(r, i) = NearestInt(i * tb[2], fps * tb[1])
      /\ (last.op = "sendFrame" /\ last.was_open) =>
           LET i == r.frame_index - (IF last.return = Some(TRUE) THEN 1 ELSE 0)
           IN  SlotFrame(r, last.slot).av_frame.pts
                 = Some(NearestInt(i * tb[2], fps * tb[1]))

\* C8 as claimed: the PTS is the exact rounded rescale of the frame index and
\* the PTS sequence over i = 0, 1, 2, ... is strictly increasing, for every
\* frame rate and stream time base of an open session.  It is stated here
\* for the sessions whose time base the stream reported, so that the
\* fallback value of Renderer::new plays no part in its failure.
PtsExactAndStrictlyIncreasing ==
  (is_some(RENDERER_STATE)
     /\ unwrap(RENDERER_STATE).stream_time_base \in TimeBases) =>
    LET r == unwrap(RENDERER_STATE)
    IN  /\ PtsIsExactRescale(r)
        /\ \A i \in 0..MaxAccepted : PtsAt(r, i) < PtsAt(r, i + 1)

\* C8 amended: the PTS is the exact rounded rescale of the frame index; the
\* PTS sequence never decreases, and it is strictly increasing when one
\* tick of the stream time base is no longer than one frame
\* (fps * num <= den for the time base num/den).
PtsExactAndMonotone ==
  is_some(RENDERER_STATE) =>
    LET r   == unwrap(RENDERER_STATE)
        fps == r.frame_rate[1]
        tb  == r.stream_time_base
    IN  /\ PtsIsExactRescale(r)
        /\ \A i \in 0..MaxAccepted :
             /\ PtsAt(r, i) <= PtsAt(r, i + 1)
             /\ fps * tb[1] <= tb[2] => PtsAt(r, i) < PtsAt(r, i + 1)

\* C8 witness: at 60 fps in a 1/1000 time base the frame of index 1 was
\* stamped 17 (1000/60 rounded up), after index 0 was stamped 0
StampedRoundedPts ==
  /\ last.op = "sendFrame"
  /\ last.return = Some(TRUE)
  /\ is_some(RENDERER_STATE)
  /\ unwrap(RENDERER_STATE).frame_rate = Rational(60, 1)
  /\ unwrap(RENDERER_STATE).stream_time_base = Rational(1, 1000)
  /\ unwrap(RENDERER_STATE).frame_index = 2
  /\ SlotFrame(unwrap(RENDERER_STATE), last.slot).av_frame.pts = Some(17)

\* the plane pointers of the planes a frame allocated at `buf` owns
OwnPlanes(buf) == <<buf, buf + 1, buf + 2>>

\* the frames a registry value holds
live_frames(state) ==
  IF is_some(state)
  THEN {unwrap(state).frame_a, unwrap(state).frame_b}
  ELSE {}

\* C9: every aliased frame that goes away (failed open, replacement by a
\* later start, finishEncode) has had its release run exactly once, before
\* the frame's own destructor, which therefore never sees a plane pointer
\* that points at the caller's buffers; a frame still in the registry has
\* not been released; a frame that was built is in the registry or was
\* released and destroyed.
FramesReleasedOnceBeforeDestroy ==
  /\ [](/\ \A x \in last.freed :
             /\ x.drops = 1
             /\ \A k \in 1..3 : x.data[k] # x.jvm[k]
        /\ \A f \in live_frames(RENDERER_STATE) : f.drops = 0
        /\ ~aborted =>
             {f.av_frame.buf : f \in last.created}
               \subseteq live_bufs(RENDERER_STATE) \cup {x.buf : x \in last.freed})
  /\ [][ live_bufs(RENDERER_STATE) \ live_bufs(RENDERER_STATE')
           \subseteq {x.buf : x \in last'.freed} ]_vars

\* C9 witness: a startEncode that failed on an open session destroyed four
\* frames, the two it built and the two of the old session
FailedRestartDestroyedFourFrames ==
  /\ last.op = "startEncode"
  /\ last.return = Some(FALSE)
  /\ last.was_open
  /\ Cardinality(last.freed) = 4
  /\ \A x \in last.freed : x.drops = 1

\* C10: JavaFrame::new records the frame's own plane pointers and replaces
\* them by the caller's; sendFrame changes neither the recorded nor the
\* current plane pointers; after the release the plane pointers are exactly
\* the frame's own ones again.
AliasRoundTrip ==
  /\ [](/\ \A f \in last.created \cup live_frames(RENDERER_STATE) :
             f.original_yuv = OwnPlanes(f.av_frame.buf)
        /\ last.created # {} =>
             \E h \in HostCalls :
               {f.av_frame.data : f \in last.created} = {h.yuv_a, h.yuv_b}
        /\ is_some(RENDERER_STATE) =>
             \E h \in HostCalls :
               /\ unwrap(RENDERER_STATE).frame_a.av_frame.data = h.yuv_a
               /\ unwrap(RENDERER_STATE).frame_b.av_frame.data = h.yuv_b
        /\ \A x \in last.freed : x.data = OwnPlanes(x.buf))
  /\ [][ (last'.op = "sendFrame" /\ is_some(RENDERER_STATE)) =>
           LET old == unwrap(RENDERER_STATE)
               new == unwrap(RENDERER_STATE')
           IN  /\ new.frame_a.av_frame.data = old.frame_a.av_frame.data
               /\ new.frame_b.av_frame.data = old.frame_b.av_frame.data
               /\ new.frame_a.original_yuv = old.frame_a.original_yuv
               /\ new.frame_b.original_yuv = old.frame_b.original_yuv
               /\ new.frame_a.av_frame.buf = old.frame_a.av_frame.buf
               /\ new.frame_b.av_frame.buf = old.frame_b.av_frame.buf
       ]_vars

\* C10 witness: finishEncode released the frames of a session that had
\* submitted two frames, and each got its own plane pointers back
ReleasedAfterSubmits ==
  /\ last.op = "finishEncode"
  /\ \E e \in last.encoders : e.accepted = 2
  /\ Cardinality(last.freed) = 2
  /\ \A x \in last.freed : x.data = OwnPlanes(x.buf) /\ x.jvm # x.data

\* how many writes of one kind a container has taken
Writes(log, kind) == Cardinality({i \in 1..Len(log) : log[i] = kind})

\* the writes of a session's container: one header, before everything else;
\* at most one trailer, after everything else
HeaderFirstTrailerLast(log) ==
  /\ Writes(log, "header") = 1
  /\ log[1] = "header"
  /\ Writes(log, "trailer") <= 1
  /\ \A i \in 1..Len(log) : log[i] = "trailer" => i = Len(log)

\* C11: over any sequence of calls, the container of a session has had its
\* header written exactly once and before any packet, its trailer at most
\* once, and no packet after the trailer.  (A container whose opening failed
\* never became a session's: nothing at all was written to it.)
ContainerWritesInOrder ==
  /\ is_some(RENDERER_STATE) =>
       LET octx == unwrap(RENDERER_STATE).octx
       IN  /\ HeaderFirstTrailerLast(octx.log)
           /\ Writes(octx.log, "packet") = Len(octx.packets)
  /\ \A o \in last.outputs :
       /\ o.header => HeaderFirstTrailerLast(o.log)
       /\ ~o.header => o.log = <<>>
       /\ o.trailer <=> Writes(o.log, "trailer") >= 1
       /\ Writes(o.log, "packet") = o.packets

\* C11 witness: finishEncode closed a container that took the header, two
\* packets and the trailer
FinishedHeaderPacketsTrailer ==
  /\ last.op = "finishEncode"
  /\ \E o \in last.outputs :
       o.log = <<"header", "packet", "packet", "trailer">>

\* C12: finish is attempted at most once on a session, and once it has been
\* attempted no submit reaches that session's encoder or container: from a
\* finishEncode until the next startEncode that returns true the registry is
\* Empty, the finished session has been destroyed by that finishEncode, and
\* every sendFrame in between is the no-op of the Empty registry.
FinishedSessionIsGone ==
  /\ finished # "no" => RENDERER_STATE = None
  /\ last.op = "finishEncode" =>
       /\ finished # "no"
       /\ last.was_open =>
            /\ finished = "session"
            /\ Cardinality(last.freed) = 2
            /\ Cardinality(last.encoders) = 1
            /\ Cardinality(last.outputs) = 1
  /\ (finished # "no" /\ last.op = "sendFrame") =>
       /\ ~last.was_open
       /\ last.return = Some(TRUE)
       /\ last.events = {}
       /\ last.freed = {} /\ last.encoders = {} /\ last.outputs = {}

\* C12 witness: a sendFrame after a finishEncode that ended a session and
\* before any further successful start
SentAfterFinish ==
  /\ finished = "session"
  /\ last.op = "sendFrame"
  /\ last.return = Some(TRUE)
  /\ RENDERER_STATE = None

\* n writes of a packet, in a container's log
PacketWrites(n) == [i \in 1..n |-> "packet"]

\* C13: finish sends the end of stream, then writes the remaining packets,
\* then writes the trailer.  The trailer is written only if the end of
\* stream was accepted and no packet write failed, and exactly then finish
\* returns Ok, unless the trailer write itself fails; a refused end of stream
\* leaves encoder and container untouched and returns the error; a failed
\* packet write returns the error without a trailer.  When receive_packet
\* never failed, the trailer follows every packet the encoder had left.
FinishOrder ==
  is_some(RENDERER_STATE) =>
    LET r == unwrap(RENDERER_STATE)
    IN  \A lib \in FinishAnswers(r) :
          LET f       == finish_render(r, lib)
              n       == Len(f.self.octx.packets) - Len(r.octx.packets)
              trailer == f.self.octx.trailer
          IN  /\ lib.eof_err => (~f.ok /\ f.self = r)
              /\ n >= 0
              /\ n > 0 => f.self.encoder.eof
              /\ f.self.octx.log =
                   r.octx.log \o PacketWrites(n)
                     \o (IF trailer THEN <<"trailer">> ELSE <<>>)
              /\ trailer =>
                   (~lib.eof_err /\ f.self.encoder.eof
                      /\ "write_err" \notin f.events)
              /\ "write_err" \in f.events => (~f.ok /\ ~trailer)
              /\ f.ok <=> trailer
              /\ ~trailer <=>
                   f.events \cap {"eof_err", "write_err", "trailer_err"} # {}
              /\ (trailer /\ "recv_err" \notin f.events) =>
                   /\ f.self.encoder.ready = <<>>
                   /\ f.self.encoder.made = Len(f.self.encoder.accepted)
                   /\ n = Len(r.encoder.ready)
                          + Len(r.encoder.accepted) - r.encoder.made

\* C13 witness: finishEncode wrote the first remaining packet, failed on the
\* second and wrote no trailer
FinishFailedOnSecondPacket ==
  /\ last.op = "finishEncode"
  /\ "write_err" \in last.events
  /\ \E o \in last.outputs : o.log = <<"header", "packet">>
  /\ \E e \in last.encoders : e.eof /\ e.accepted = 2

\* C14: within one session the frames the encoder accepted carry strictly
\* increasing PTS, no two of them the same one, also when a submit whose
\* frame was accepted failed on a packet write and the caller submitted
\* again.  (Stated for the sessions in which consecutive frame indices
\* rescale to different PTS: a negotiated time base whose tick is no longer
\* than one frame.)
AcceptedPtsStrictlyIncreasing ==
  is_some(RENDERER_STATE) =>
    LET r        == unwrap(RENDERER_STATE)
        accepted == r.encoder.accepted
    IN  (/\ r.stream_time_base \in TimeBases
         /\ r.frame_rate[1] * r.stream_time_base[1]
              <= r.frame_rate[2] * r.stream_time_base[2]) =>
          \A i, j \in 1..Len(accepted) :
            i < j => unwrap(accepted[i].pts) < unwrap(accepted[j].pts)

\* C15: when the container reports no time base for stream 0 after the
\* header is written, the session's stream time base is 1/90000 (numerator
\* 1, denominator 90000): the time base of a session is one the container
\* reported or else 1/90000, and the second frame of a 60 fps session with
\* the fallback is stamped 1500.
FallbackTimeBaseIsOneOver90000 ==
  is_some(RENDERER_STATE) =>
    LET r == unwrap(RENDERER_STATE)
    IN  /\ r.stream_time_base \in TimeBases \cup {Rational(1, 90000)}
        /\ (r.stream_time_base \notin TimeBases /\ r.frame_rate = Rational(60, 1))
             => PtsAt(r, 1) = 1500

\* C16: submit and finish drain fully before they return: when sendFrame has
\* returned true, and when finish_render returns Ok, the encoder holds no
\* packet that is ready and not written, and the packets in the container
\* are in the order the encoder made them, none twice.  (The claim says so
\* of every return; it is stated here of the returns that report success.)
DrainedOnSuccessfulReturn ==
  is_some(RENDERER_STATE) =>
    LET r == unwrap(RENDERER_STATE)
    IN  /\ (last.op = "sendFrame" /\ last.return = Some(TRUE)) =>
             r.encoder.ready = <<>>
        /\ \A i, j \in 1..Len(r.octx.packets) :
             i < j => r.octx.packets[i].seq < r.octx.packets[j].seq
        /\ \A lib \in FinishAnswers(r) :
             LET f == finish_render(r, lib)
             IN  f.ok =>
                   /\ f.self.encoder.ready = <<>>
                   /\ \A i, j \in 1..Len(f.self.octx.packets) :
                        i < j => f.self.octx.packets[i].seq
                                   < f.self.octx.packets[j].seq

\* C17: every packet written to the container, by submit or by finish, has
\* been tagged with the video stream index 0 by the session (set_stream(0))
\* before it is written.
EveryWrittenPacketTagged ==
  is_some(RENDERER_STATE) =>
    LET r == unwrap(RENDERER_STATE)
    IN  /\ \A i \in 1..Len(r.octx.packets) :
             r.octx.packets[i].tagged /\ r.octx.packets[i].stream = 0
        /\ \A lib \in FinishAnswers(r) :
             LET written == finish_render(r, lib).self.octx.packets
             IN  \A i \in 1..Len(written) :
                   written[i].tagged /\ written[i].stream = 0

\* C18: submit(useSlotB) stamps the PTS on the slot-B frame and feeds that
\* frame to the encoder exactly when useSlotB is true, and does so with the
\* slot-A frame otherwise, whatever the earlier calls chose; the frame of the
\* slot that was not selected keeps its PTS and its plane pointers, and the
\* selected frame keeps its plane pointers.
SubmitUsesRequestedSlot ==
  is_some(RENDERER_STATE) =>
    LET r   == unwrap(RENDERER_STATE)
        pts == Some(PtsAt(r, r.frame_index))
    IN  /\ (last.op = "sendFrame" /\ last.was_open) =>
             is_some(SlotFrame(r, last.slot).av_frame.pts)
        /\ \A use_buffer_b \in BOOLEAN :
             \A lib \in SendAnswers(r) :
               LET out      == send_frame(r, use_buffer_b, lib).self
                   selected == SlotFrame(out, Some(use_buffer_b))
                   accepted == r.encoder.accepted
               IN  /\ selected.av_frame.pts = pts
                   /\ selected.av_frame.data
                        = SlotFrame(r, Some(use_buffer_b)).av_frame.data
                   /\ SlotFrame(out, Some(~use_buffer_b))
                        = SlotFrame(r, Some(~use_buffer_b))
                   /\ out.encoder.accepted =
                        IF lib.send_err
                        THEN accepted
                        ELSE Append(accepted,
                                    [ pts  |-> pts,
                                      data |-> selected.av_frame.data ])

\* C18 witness: two submits of slot A in a row, both true: the encoder got
\* the slot-A planes twice and the slot-B frame was never stamped
SubmittedSlotATwice ==
  /\ last.op = "sendFrame"
  /\ last.slot = Some(FALSE)
  /\ last.return = Some(TRUE)
  /\ is_some(RENDERER_STATE)
  /\ LET r == unwrap(RENDERER_STATE)
     IN  /\ r.frame_index = 2
         /\ Len(r.encoder.accepted) = 2
         /\ r.frame_a.av_frame.data # r.frame_b.av_frame.data
         /\ \A i \in 1..2 : r.encoder.accepted[i].data = r.frame_a.av_frame.data
         /\ r.frame_b.av_frame.pts = None

====
